---- MODULE Spec2Model ----
(***************************************************************************)
(* Timed quiz sessions of the quiz application: the QuizSession model,     *)
(* the quiz service (session validation, scoring) and the HTTP handlers    *)
(* that drive them, over a committed database and per-request ORM state.   *)
(***************************************************************************)
EXTENDS Integers, Sequences, FiniteSets, TLC

(***************************************************************************)
(* Bounds of the model.                                                    *)
(***************************************************************************)
NumUsers == 2
MaxTime == 2
MaxSessions == 2
MaxExtends == 1
TicksPerMinute == 1

(***************************************************************************)
(* Program constants.                                                      *)
(***************************************************************************)
DefaultQuizMinutes == 30
MinTimeLimit == 1
MaxTimeLimit == 180
MinExtension == 1
MaxExtension == 30

Users == 1..NumUsers
Anonymous == 0
Threads == {"r1", "r2"}
MainThread == "r1"
NoTime == -1
NoSession == 0

(***************************************************************************)
(* Text.  A string is a sequence of one-character strings, so that         *)
(* strip(), lower() and int() are computed character by character.         *)
(***************************************************************************)
UpperChars == <<"A","B","C","D","E","F","G","H","I","J","K","L","M",
                "N","O","P","Q","R","S","T","U","V","W","X","Y","Z">>
LowerChars == <<"a","b","c","d","e","f","g","h","i","j","k","l","m",
                "n","o","p","q","r","s","t","u","v","w","x","y","z">>
DigitChars == <<"0","1","2","3","4","5","6","7","8","9">>
Whitespace == {" ", "\t", "\n"}

IsDigit(c) == \E i \in 1..10 : DigitChars[i] = c
DigitVal(c) == (CHOOSE i \in 1..10 : DigitChars[i] = c) - 1

LowerChar(c) ==
  IF \E i \in 1..26 : UpperChars[i] = c
    THEN LowerChars[CHOOSE i \in 1..26 : UpperChars[i] = c]
    ELSE c

\* Mutation of Lower: the text is compared as written.
Lower_as_written(s) == s

\* str.lower()
Lower(s) == [i \in 1..Len(s) |-> LowerChar(s[i])]

RECURSIVE LStrip(_)
LStrip(s) ==
  IF s # <<>> /\ Head(s) \in Whitespace THEN LStrip(Tail(s)) ELSE s

RECURSIVE RStrip(_)
RStrip(s) ==
  IF s # <<>> /\ s[Len(s)] \in Whitespace
    THEN RStrip(SubSeq(s, 1, Len(s) - 1))
    ELSE s

\* str.strip()
Strip(s) == RStrip(LStrip(s))

RECURSIVE DigitsValue(_, _)
DigitsValue(s, acc) ==
  IF s = <<>> THEN acc
  ELSE IF Head(s) = "_" THEN DigitsValue(Tail(s), acc)
  ELSE DigitsValue(Tail(s), acc * 10 + DigitVal(Head(s)))

\* Mutation of ParseInt: text that is not an integer is read as 1.
ParseInt_default(s) == [ok |-> TRUE, val |-> 1]

\* int(id_str) for a text argument: surrounding whitespace is ignored, one
\* sign is allowed, digits may be grouped by single underscores; anything
\* else raises ValueError (ok = FALSE).
ParseInt(s) ==
  LET t == Strip(s)
      signed == t # <<>> /\ Head(t) \in {"+", "-"}
      body == IF signed THEN Tail(t) ELSE t
      wellFormed ==
        /\ body # <<>>
        /\ \A i \in 1..Len(body) : IsDigit(body[i]) \/ body[i] = "_"
        /\ IsDigit(body[1]) /\ IsDigit(body[Len(body)])
        /\ \A i \in 1..(Len(body) - 1) : ~(body[i] = "_" /\ body[i + 1] = "_")
      magnitude == DigitsValue(body, 0)
  IN IF wellFormed
       THEN [ok |-> TRUE,
             val |-> IF signed /\ Head(t) = "-" THEN 0 - magnitude ELSE magnitude]
       ELSE [ok |-> FALSE, val |-> 0]

Saturn == <<"S","a","t","u","r","n">>
Au == <<"A","u">>
Paris == <<"P","a","r","i","s">>
Mars == <<"M","a","r","s">>

(***************************************************************************)
(* The question bank and the scorer.                                       *)
(***************************************************************************)
Question(i, a) == [id |-> i, answer |-> a]

QuestionBanks == { <<>>, <<Question(1, Saturn)>> }

\* {q.id: q.answer for q in results}: a later question with the same id wins.
question_map(results) ==
  [i \in {results[j].id : j \in 1..Len(results)} |->
     results[CHOOSE j \in 1..Len(results) :
               /\ results[j].id = i
               /\ \A k \in 1..Len(results) : results[k].id = i => k <= j].answer]

\* One iteration of the loop of calculate_score: 1 when the entry counts.
EntryCounts(qmap, id_str, ans) ==
  LET parsed == ParseInt(id_str)
  IN /\ parsed.ok
     /\ parsed.val \in DOMAIN qmap
     /\ Lower(Strip(qmap[parsed.val])) = Lower(Strip(ans))

\* Mutation of CountEntries: a correct entry sets the counter to 1 instead
\* of adding 1 to it.
RECURSIVE CountEntries_flag(_, _, _, _)
CountEntries_flag(qmap, form_data, todo, counter) ==
  IF todo = {} THEN counter
  ELSE LET id_str == CHOOSE k \in todo : TRUE
       IN CountEntries_flag(qmap, form_data, todo \ {id_str},
                            IF EntryCounts(qmap, id_str, form_data[id_str])
                              THEN 1 ELSE counter)

RECURSIVE CountEntries(_, _, _, _)
CountEntries(qmap, form_data, todo, counter) ==
  IF todo = {} THEN counter
  ELSE LET id_str == CHOOSE k \in todo : TRUE
       IN CountEntries(qmap, form_data, todo \ {id_str},
                       IF EntryCounts(qmap, id_str, form_data[id_str])
                         THEN counter + 1 ELSE counter)

\* form_data is a mapping from id text to answer text.
calculate_score(form_data, results) ==
  CountEntries(question_map(results), form_data, DOMAIN form_data, 0)

EmptyForm == [k \in {} |-> <<>>]
Form1(k, a) == [x \in {k} |-> a]
Form2(k1, a1, k2, a2) == [x \in {k1, k2} |-> IF x = k1 THEN a1 ELSE a2]

\* Submitted forms used by the requests of the model.
FormInputs ==
  { EmptyForm,
    Form1(<<"1">>, Mars),
    Form2(<<"1">>, <<" ","s","A","T","U","R","N"," ">>, <<"x">>, Saturn) }

(***************************************************************************)
(* State.                                                                  *)
(*   now        the clock (utc_now), in ticks                              *)
(*   questions  the question bank (table questions)                        *)
(*   sessions   table quiz_session as committed; the id of a row is its    *)
(*              index                                                      *)
(*   results    table quizresult as committed: for each user the           *)
(*              quiz_score of the rows of that user, in id order           *)
(*   req        per request thread: the handler being run, its position,   *)
(*              its arguments, the session object it holds and its reply   *)
(*   extends    number of extensions accepted so far                       *)
(***************************************************************************)
VARIABLES now, questions, sessions, results, req, extends

vars == <<now, questions, sessions, results, req, extends>>

Terminal == {"completed", "timeout", "abandoned"}

\* QuizSession.__init__ followed by the column defaults applied on insert.
QuizSession(user_id, time_limit_minutes, t) ==
  [user_id |-> user_id, start_time |-> t, end_time |-> NoTime,
   time_limit_minutes |-> time_limit_minutes, status |-> "active",
   score |-> 0, total_questions |-> 0]

NoObject == QuizSession(Anonymous, 0, 0)

expiry_time(s) == s.start_time + s.time_limit_minutes * TicksPerMinute

\* Mutation of is_expired: the instant of expiry itself is not yet expired.
is_expired_after(s, t) ==
  IF s.status # "active" THEN TRUE ELSE t > expiry_time(s)

is_expired(s, t) ==
  IF s.status # "active" THEN TRUE ELSE t >= expiry_time(s)

complete_session(s, t, score, total_questions) ==
  [s EXCEPT !.end_time = t, !.status = "completed",
            !.score = score, !.total_questions = total_questions]

timeout_session(s, t, score, total_questions) ==
  [s EXCEPT !.end_time = t, !.status = "timeout",
            !.score = score, !.total_questions = total_questions]

\* Mutation of abandon_session: end_time is left as it was.
abandon_session_status_only(s, t) ==
  [s EXCEPT !.status = "abandoned"]

abandon_session(s, t) ==
  [s EXCEPT !.end_time = t, !.status = "abandoned"]

ScoredFields == {"end_time", "status", "score", "total_questions"}
AbandonFields == {"end_time", "status"}

\* db.session.commit() of a modified session object: the UPDATE carries the
\* attributes assigned since the object was loaded whose value differs from
\* the loaded one, and every assigned attribute once the object has been
\* expired by an earlier commit.
\* Mutation of Commit: the UPDATE is lost when the stored row is no longer
\* active.
Commit_first_wins(row, obj, new, assigned, expired) ==
  IF row.status # "active" THEN row
  ELSE [f \in DOMAIN row |->
          IF f \in assigned /\ (expired \/ new[f] # obj[f]) THEN new[f]
          ELSE row[f]]

Commit(row, obj, new, assigned, expired) ==
  [f \in DOMAIN row |->
     IF f \in assigned /\ (expired \/ new[f] # obj[f]) THEN new[f] ELSE row[f]]

\* Mutation of ActiveIds: the query does not filter on the status.
ActiveIds_any_status(user_id) ==
  {i \in 1..Len(sessions) : sessions[i].user_id = user_id}

\* QuizSession.get_active_session: the rows the query matches; first() takes
\* one of them.
ActiveIds(user_id) ==
  {i \in 1..Len(sessions) :
     sessions[i].user_id = user_id /\ sessions[i].status = "active"}

\* Mutation of get_active_session: the query does not filter on the user.
get_active_session_any_user(user_id) ==
  LET active == {i \in 1..Len(sessions) : sessions[i].status = "active"}
  IN IF active = {} THEN {NoSession} ELSE active

get_active_session(user_id) ==
  IF ActiveIds(user_id) = {} THEN {NoSession} ELSE ActiveIds(user_id)

\* quiz_service.get_active_quiz_session
get_active_quiz_session(user) ==
  IF user = Anonymous THEN {NoSession} ELSE get_active_session(user)

Object(sid) == IF sid = NoSession THEN NoObject ELSE sessions[sid]

Reply(code, valid, message, score) ==
  [code |-> code, valid |-> valid, message |-> message, score |-> score]

NoReply == Reply("none", FALSE, "", 0)

IdleRequest ==
  [pc |-> "idle", name |-> "none", user |-> Anonymous, form |-> EmptyForm,
   minutes |-> 0, sid |-> NoSession, obj |-> NoObject, expired |-> FALSE,
   newsid |-> NoSession, ret |-> NoReply]

\* A request arrives: the handler, its arguments, the session object it
\* loaded and the position it continues at.
Arrive(t, name, user, minutes, sid, pc) ==
  [req EXCEPT ![t] =
     [IdleRequest EXCEPT !.pc = pc, !.name = name, !.user = user,
        !.minutes = minutes, !.sid = sid, !.obj = Object(sid)]]

\* The handler has computed its reply.
Done(r, ret) ==
  [IdleRequest EXCEPT !.pc = "done", !.name = r.name, !.user = r.user,
     !.form = r.form, !.sid = r.sid, !.newsid = r.newsid, !.ret = ret]

\* A request that replies at once.
ArriveDone(t, name, user, ret) ==
  [req EXCEPT ![t] =
     [IdleRequest EXCEPT !.pc = "done", !.name = name, !.user = user,
        !.ret = ret]]

Set(t, r) == [req EXCEPT ![t] = r]

Idle(t) == req[t].pc = "idle"

Init ==
  /\ now = 0
  /\ questions \in QuestionBanks
  /\ sessions = <<>>
  /\ results = [u \in Users |-> <<>>]
  /\ req = [t \in Threads |-> IdleRequest]
  /\ extends = 0

\* Mutation of Tick: sessions whose time is up are timed out as the clock
\* crosses their expiry.
Tick_sweep ==
  /\ now < MaxTime
  /\ now' = now + 1
  /\ sessions' = [i \in 1..Len(sessions) |->
                    IF sessions[i].status = "active"
                         /\ is_expired(sessions[i], now + 1)
                      THEN timeout_session(sessions[i], now + 1, 0, 0)
                      ELSE sessions[i]]
  /\ UNCHANGED <<questions, results, req, extends>>

\* The clock advances.
Tick ==
  /\ now < MaxTime
  /\ now' = now + 1
  /\ UNCHANGED <<questions, sessions, results, req, extends>>

\* The reply has been sent; the request context is torn down.
Finish(t) ==
  /\ req[t].pc = "done"
  /\ req' = Set(t, IdleRequest)
  /\ UNCHANGED <<now, questions, sessions, results, extends>>

(***************************************************************************)
(* Inputs of the requests.                                                 *)
(***************************************************************************)
LimitInputs == {0, 1, 181}
ExtensionInputs == {0, 1, 31}

(***************************************************************************)
(* quiz_service.validate_session_time(session) at the position of the      *)
(* request t: an expired session object is timed out and committed.        *)
(***************************************************************************)
validate_session_time(t, pcValid, pcInvalid) ==
  LET r == req[t]
      valid == Reply("ok", TRUE, "Session is valid", 0)
      invalid == Reply("expired", FALSE, "Quiz time has expired", 0)
  IN
  IF is_expired(r.obj, now)
    THEN /\ sessions' = [sessions EXCEPT ![r.sid] =
               Commit(@, r.obj, timeout_session(r.obj, now, 0, 0),
                      ScoredFields, r.expired)]
         /\ req' = Set(t, IF pcInvalid = "done" THEN Done(r, invalid)
                          ELSE [r EXCEPT !.pc = pcInvalid, !.expired = TRUE,
                                         !.ret = invalid])
    ELSE /\ req' = Set(t, IF pcValid = "done" THEN Done(r, valid)
                          ELSE [r EXCEPT !.pc = pcValid, !.ret = valid])
         /\ UNCHANGED sessions

\* Mutation of create_new_session: an active session is not looked for.
create_new_session_no_lookup(t, name, user, minutes) ==
  /\ Len(sessions) < MaxSessions
  /\ req' = Arrive(t, name, user, minutes, NoSession, "create_insert")

(***************************************************************************)
(* QuizSession.create_new_session, entered with the active session found.  *)
(***************************************************************************)
create_new_session(t, name, user, minutes) ==
  /\ Len(sessions) < MaxSessions
  /\ \E sid \in get_active_session(user) :
       req' = Arrive(t, name, user, minutes, sid,
                     IF sid = NoSession THEN "create_insert"
                                        ELSE "create_abandon")

\* Mutation of create_new_session_abandon: the prior session is deleted.
create_new_session_delete(t) ==
  LET r == req[t] IN
  /\ r.pc = "create_abandon"
  /\ sessions' = SubSeq(sessions, 1, r.sid - 1)
                   \o SubSeq(sessions, r.sid + 1, Len(sessions))
  /\ req' = Set(t, [r EXCEPT !.pc = "create_insert", !.expired = TRUE])
  /\ UNCHANGED <<now, questions, results, extends>>

\* active_session.abandon_session(); db.session.commit()
create_new_session_abandon(t) ==
  LET r == req[t] IN
  /\ r.pc = "create_abandon"
  /\ sessions' = [sessions EXCEPT ![r.sid] =
        Commit(@, r.obj, abandon_session(r.obj, now), AbandonFields, r.expired)]
  /\ req' = Set(t, [r EXCEPT !.pc = "create_insert", !.expired = TRUE])
  /\ UNCHANGED <<now, questions, results, extends>>

\* Mutation of create_new_session_insert: the limit argument is dropped and
\* the default of the constructor is used.
create_new_session_insert_default(t) ==
  LET r == req[t] IN
  /\ r.pc = "create_insert"
  /\ sessions' = Append(sessions, QuizSession(r.user, DefaultQuizMinutes, now))
  /\ req' = Set(t, Done([r EXCEPT !.newsid = Len(sessions) + 1],
                        Reply("created", TRUE, "", 0)))
  /\ UNCHANGED <<now, questions, results, extends>>

\* session = cls(...); db.session.add(session); db.session.commit()
create_new_session_insert(t) ==
  LET r == req[t] IN
  /\ r.pc = "create_insert"
  /\ sessions' = Append(sessions, QuizSession(r.user, r.minutes, now))
  /\ req' = Set(t, Done([r EXCEPT !.newsid = Len(sessions) + 1],
                        Reply("created", TRUE, "", 0)))
  /\ UNCHANGED <<now, questions, results, extends>>

(***************************************************************************)
(* GET /quiz: start a new timed session with the default limit.            *)
(***************************************************************************)
quiz_get(t, user) ==
  /\ Idle(t)
  /\ IF questions = <<>>
       THEN req' = ArriveDone(t, "quiz_get", user,
                              Reply("no_questions", FALSE, "", 0))
       ELSE create_new_session(t, "quiz_get", user, DefaultQuizMinutes)
  /\ UNCHANGED <<now, questions, sessions, results, extends>>

(***************************************************************************)
(* POST /quiz: submit the answers.  The form is read where it is scored.   *)
(***************************************************************************)
quiz_post(t, user) ==
  /\ Idle(t)
  /\ IF questions = <<>>
       THEN req' = ArriveDone(t, "quiz_post", user,
                              Reply("no_questions", FALSE, "", 0))
       ELSE \E sid \in get_active_quiz_session(user) :
              req' = Arrive(t, "quiz_post", user, 0, sid,
                            IF sid = NoSession THEN "score"
                                               ELSE "route_validate")
  /\ UNCHANGED <<now, questions, sessions, results, extends>>

\* quiz(): validate_session_time(session) before scoring; an expired session
\* is answered with score 0.
quiz_validate(t) ==
  /\ req[t].pc = "route_validate"
  /\ validate_session_time(t, "svc_validate", "route_expired")
  /\ UNCHANGED <<now, questions, results, extends>>

\* quiz(): if not is_valid, the submitted form is dropped and the user is
\* redirected to the results page with score=0 and timeout=True.
quiz_expired(t, form_data) ==
  LET r == req[t] IN
  /\ r.pc = "route_expired"
  /\ req' = Set(t, Done([r EXCEPT !.form = form_data],
                        Reply("expired", FALSE, r.ret.message, 0)))
  /\ UNCHANGED <<now, questions, sessions, results, extends>>

\* get_quiz_score: validate_session_time(session)
get_quiz_score_validate(t) ==
  /\ req[t].pc = "svc_validate"
  /\ validate_session_time(t, "score", "partial")
  /\ UNCHANGED <<now, questions, results, extends>>

\* Mutation of get_quiz_score_expired: TimeoutError is raised without
\* recording the partial score.
get_quiz_score_expired_unrecorded(t, form_data) ==
  LET r == req[t]
      counter == calculate_score(form_data, questions)
  IN
  /\ r.pc = "partial"
  /\ req' = Set(t, Done([r EXCEPT !.form = form_data],
                        Reply("timeout_error", FALSE, r.ret.message, counter)))
  /\ UNCHANGED <<now, questions, sessions, results, extends>>

\* Mutation of get_quiz_score_expired: the expired submit is recorded like
\* a submit in time.
get_quiz_score_expired_as_completed(t, form_data) ==
  LET r == req[t]
      counter == calculate_score(form_data, questions)
  IN
  /\ r.pc = "partial"
  /\ sessions' = [sessions EXCEPT ![r.sid] =
        Commit(@, r.obj,
               complete_session(r.obj, now, counter, Len(questions)),
               ScoredFields, r.expired)]
  /\ results' = [results EXCEPT ![r.user] = <<counter>>]
  /\ req' = Set(t, Done([r EXCEPT !.form = form_data],
                        Reply("timeout_error", FALSE, r.ret.message, counter)))
  /\ UNCHANGED <<now, questions, extends>>

\* get_quiz_score, session found expired: the partial score is recorded with
\* timeout_session and TimeoutError is raised.
get_quiz_score_expired(t, form_data) ==
  LET r == req[t]
      counter == calculate_score(form_data, questions)
  IN
  /\ r.pc = "partial"
  /\ sessions' = [sessions EXCEPT ![r.sid] =
        Commit(@, r.obj,
               timeout_session(r.obj, now, counter, Len(questions)),
               ScoredFields, r.expired)]
  /\ req' = Set(t, Done([r EXCEPT !.form = form_data],
                        Reply("timeout_error", FALSE, r.ret.message, counter)))
  /\ UNCHANGED <<now, questions, results, extends>>

\* Mutation of upsert_result: a row is added on every submit.
upsert_result_always_add(user, counter) ==
  {[results EXCEPT ![user] = Append(@, counter)]}

\* The upsert of the QuizResult of a user: the row first() returns is
\* overwritten, a row is added when there is none.
upsert_result(user, counter) ==
  IF results[user] = <<>>
    THEN {[results EXCEPT ![user] = <<counter>>]}
    ELSE {[results EXCEPT ![user][i] = counter] : i \in 1..Len(results[user])}

\* get_quiz_score, session valid or absent: score, complete the session,
\* upsert the QuizResult of the current user, commit.
get_quiz_score_complete(t, form_data) ==
  LET r == req[t]
      counter == calculate_score(form_data, questions)
  IN
  /\ r.pc = "score"
  /\ IF questions = <<>> \/ form_data = EmptyForm
       THEN /\ req' = Set(t, Done([r EXCEPT !.form = form_data],
                                  Reply("score", TRUE, "", 0)))
            /\ UNCHANGED <<sessions, results>>
       ELSE /\ sessions' =
                 IF r.sid = NoSession THEN sessions
                 ELSE [sessions EXCEPT ![r.sid] =
                         Commit(@, r.obj,
                                complete_session(r.obj, now, counter,
                                                 Len(questions)),
                                ScoredFields, r.expired)]
            /\ results' \in upsert_result(r.user, counter)
            /\ req' = Set(t, Done([r EXCEPT !.form = form_data],
                                  Reply("score", TRUE, "", counter)))
  /\ UNCHANGED <<now, questions, extends>>

(***************************************************************************)
(* Status and heartbeat handlers: load the active session, then validate.  *)
(***************************************************************************)
StatusRequest(t, user) ==
  /\ Idle(t)
  /\ \E sid \in get_active_quiz_session(user) :
       IF sid = NoSession
         THEN req' = ArriveDone(t, "status", user,
                        Reply("not_found", FALSE, "No active quiz session", 0))
         ELSE req' = Arrive(t, "status", user, 0, sid, "validate")
  /\ UNCHANGED <<now, questions, sessions, results, extends>>

\* GET /quiz_status
quiz_status(t, user) == StatusRequest(t, user)

\* GET /session/status
get_session_status(t, user) == StatusRequest(t, user)

\* POST /session/heartbeat
session_heartbeat(t, user) == StatusRequest(t, user)

\* Mutation of validate_step: the session is timed out whether or not its
\* time is up.
validate_step_eager(t) ==
  LET r == req[t] IN
  /\ r.pc = "validate"
  /\ sessions' = [sessions EXCEPT ![r.sid] =
        Commit(@, r.obj, timeout_session(r.obj, now, 0, 0),
               ScoredFields, r.expired)]
  /\ req' = Set(t, Done(r, Reply("expired", FALSE, "Quiz time has expired", 0)))
  /\ UNCHANGED <<now, questions, results, extends>>

\* Mutation of validate_step: the check answers without timing the session
\* out.
validate_step_readonly(t) ==
  LET r == req[t] IN
  /\ r.pc = "validate"
  /\ req' = Set(t, Done(r, IF is_expired(r.obj, now)
                             THEN Reply("expired", FALSE,
                                        "Quiz time has expired", 0)
                             ELSE Reply("ok", TRUE, "Session is valid", 0)))
  /\ UNCHANGED <<now, questions, sessions, results, extends>>

\* The validity check of the three handlers above and of a direct call.
validate_step(t) ==
  /\ req[t].pc = "validate"
  /\ validate_session_time(t, "done", "done")
  /\ UNCHANGED <<now, questions, results, extends>>

\* Mutation of create_session: the time limit is not validated.
create_session_unchecked(t, user, time_limit) ==
  /\ Idle(t)
  /\ create_new_session(t, "create_session", user, time_limit)
  /\ UNCHANGED <<now, questions, sessions, results, extends>>

(***************************************************************************)
(* POST /session/create                                                    *)
(***************************************************************************)
create_session(t, user, time_limit) ==
  /\ Idle(t)
  /\ IF time_limit < MinTimeLimit \/ time_limit > MaxTimeLimit
       THEN req' = ArriveDone(t, "create_session", user,
                        Reply("bad_request", FALSE,
                          "Time limit must be between 1 and 180 minutes", 0))
       ELSE create_new_session(t, "create_session", user, time_limit)
  /\ UNCHANGED <<now, questions, sessions, results, extends>>

(***************************************************************************)
(* POST /quiz/abandon and POST /session/abandon                            *)
(***************************************************************************)
AbandonRequest(t, user) ==
  /\ Idle(t)
  /\ \E sid \in get_active_quiz_session(user) :
       IF sid = NoSession
         THEN req' = ArriveDone(t, "abandon", user,
                        Reply("not_found", FALSE,
                              "No active quiz session to abandon", 0))
         ELSE req' = Arrive(t, "abandon", user, 0, sid, "abandon")
  /\ UNCHANGED <<now, questions, sessions, results, extends>>

abandon_quiz(t, user) == AbandonRequest(t, user)

api_abandon_session(t, user) == AbandonRequest(t, user)

\* Mutation of abandon_commit: only the status reaches the database.
abandon_commit_unstamped(t) ==
  LET r == req[t] IN
  /\ r.pc = "abandon"
  /\ sessions' = [sessions EXCEPT ![r.sid] =
        Commit(@, r.obj, abandon_session(r.obj, now), {"status"}, r.expired)]
  /\ req' = Set(t, Done(r, Reply("abandoned", TRUE, "", 0)))
  /\ UNCHANGED <<now, questions, results, extends>>

\* session.abandon_session(); db.session.commit()
abandon_commit(t) ==
  LET r == req[t] IN
  /\ r.pc = "abandon"
  /\ sessions' = [sessions EXCEPT ![r.sid] =
        Commit(@, r.obj, abandon_session(r.obj, now), AbandonFields, r.expired)]
  /\ req' = Set(t, Done(r, Reply("abandoned", TRUE, "", 0)))
  /\ UNCHANGED <<now, questions, results, extends>>

(***************************************************************************)
(* POST /session/extend                                                    *)
(***************************************************************************)
\* Mutation of extend_session: an extension that takes the limit beyond the
\* maximum of a new session is refused.
extend_session_capped(t, user, additional_minutes) ==
  /\ Idle(t)
  /\ IF additional_minutes < MinExtension \/ additional_minutes > MaxExtension
       THEN req' = ArriveDone(t, "extend_session", user,
                        Reply("bad_request", FALSE,
                          "Additional time must be between 1 and 30 minutes", 0))
       ELSE \E sid \in get_active_quiz_session(user) :
              IF sid = NoSession
                THEN req' = ArriveDone(t, "extend_session", user,
                               Reply("not_found", FALSE,
                                 "No active quiz session to extend", 0))
                ELSE IF sessions[sid].time_limit_minutes + additional_minutes
                          > MaxTimeLimit
                  THEN req' = ArriveDone(t, "extend_session", user,
                                 Reply("bad_request", FALSE, "", 0))
                  ELSE /\ extends < MaxExtends
                       /\ req' = Arrive(t, "extend_session", user,
                                        additional_minutes, sid, "extend")
  /\ UNCHANGED <<now, questions, sessions, results, extends>>

\* Mutation of extend_session: the session extended is any session of the
\* user, whatever its status.
extend_session_any_status(t, user, additional_minutes) ==
  /\ Idle(t)
  /\ IF additional_minutes < MinExtension \/ additional_minutes > MaxExtension
       THEN req' = ArriveDone(t, "extend_session", user,
                        Reply("bad_request", FALSE,
                          "Additional time must be between 1 and 30 minutes", 0))
       ELSE \E sid \in {NoSession} \cup
                        {i \in 1..Len(sessions) : sessions[i].user_id = user} :
              IF sid = NoSession
                THEN req' = ArriveDone(t, "extend_session", user,
                               Reply("not_found", FALSE,
                                 "No active quiz session to extend", 0))
                ELSE /\ extends < MaxExtends
                     /\ req' = Arrive(t, "extend_session", user,
                                      additional_minutes, sid, "extend")
  /\ UNCHANGED <<now, questions, sessions, results, extends>>

extend_session(t, user, additional_minutes) ==
  /\ Idle(t)
  /\ IF additional_minutes < MinExtension \/ additional_minutes > MaxExtension
       THEN req' = ArriveDone(t, "extend_session", user,
                        Reply("bad_request", FALSE,
                          "Additional time must be between 1 and 30 minutes", 0))
       ELSE \E sid \in get_active_quiz_session(user) :
              IF sid = NoSession
                THEN req' = ArriveDone(t, "extend_session", user,
                               Reply("not_found", FALSE,
                                 "No active quiz session to extend", 0))
                ELSE /\ extends < MaxExtends
                     /\ req' = Arrive(t, "extend_session", user,
                                      additional_minutes, sid, "extend")
  /\ UNCHANGED <<now, questions, sessions, results, extends>>

\* Mutation of extend_commit: the limit is replaced by the additional
\* minutes instead of being increased by them.
extend_commit_replace(t) ==
  LET r == req[t]
      new == [r.obj EXCEPT !.time_limit_minutes = r.minutes]
  IN
  /\ r.pc = "extend"
  /\ sessions' = [sessions EXCEPT ![r.sid] =
        Commit(@, r.obj, new, {"time_limit_minutes"}, r.expired)]
  /\ extends' = extends + 1
  /\ req' = Set(t, Done(r, Reply("extended", TRUE, "", 0)))
  /\ UNCHANGED <<now, questions, results>>

\* Mutation of extend_commit: the extension also restarts the session.
extend_commit_restart(t) ==
  LET r == req[t]
      new == [r.obj EXCEPT !.time_limit_minutes = @ + r.minutes,
                           !.start_time = now]
  IN
  /\ r.pc = "extend"
  /\ sessions' = [sessions EXCEPT ![r.sid] =
        Commit(@, r.obj, new, {"time_limit_minutes", "start_time"}, r.expired)]
  /\ extends' = extends + 1
  /\ req' = Set(t, Done(r, Reply("extended", TRUE, "", 0)))
  /\ UNCHANGED <<now, questions, results>>

\* session.time_limit_minutes += additional_minutes; db.session.commit()
extend_commit(t) ==
  LET r == req[t]
      new == [r.obj EXCEPT !.time_limit_minutes = @ + r.minutes]
  IN
  /\ r.pc = "extend"
  /\ sessions' = [sessions EXCEPT ![r.sid] =
        Commit(@, r.obj, new, {"time_limit_minutes"}, r.expired)]
  /\ extends' = extends + 1
  /\ req' = Set(t, Done(r, Reply("extended", TRUE, "", 0)))
  /\ UNCHANGED <<now, questions, results>>

(***************************************************************************)
(* Direct calls of the service and of the model, as the scripts of the     *)
(* repository make them, on any stored session.                            *)
(***************************************************************************)
SessionIds == 1..Len(sessions)

\* validate_session_time(session)
call_validate_session_time(t, sid) ==
  /\ Idle(t)
  /\ IF sid = NoSession
       THEN req' = ArriveDone(t, "validate_session_time", Anonymous,
                        Reply("not_found", FALSE, "No active quiz session", 0))
       ELSE req' = Arrive(t, "validate_session_time", Anonymous, 0, sid,
                          "validate")
  /\ UNCHANGED <<now, questions, sessions, results, extends>>

TransitionNames == {"complete_session", "timeout_session", "abandon_session"}

\* session.complete_session / timeout_session / abandon_session called on a
\* session object, then committed.
call_transition(t, name, sid) ==
  /\ Idle(t)
  /\ name \in TransitionNames
  /\ req' = Arrive(t, name, Anonymous, 0, sid, "transition")
  /\ UNCHANGED <<now, questions, sessions, results, extends>>

\* The score and the total are those of a form, as in the scoring test.
transition_commit(t, form_data) ==
  LET r == req[t]
      counter == calculate_score(form_data, questions)
      new == CASE r.name = "complete_session" ->
                    complete_session(r.obj, now, counter, Len(questions))
               [] r.name = "timeout_session" ->
                    timeout_session(r.obj, now, counter, Len(questions))
               [] OTHER -> abandon_session(r.obj, now)
      assigned == IF r.name = "abandon_session" THEN AbandonFields
                                                 ELSE ScoredFields
  IN
  /\ r.pc = "transition"
  /\ sessions' = [sessions EXCEPT ![r.sid] =
        Commit(@, r.obj, new, assigned, r.expired)]
  /\ req' = Set(t, Done([r EXCEPT !.form = form_data],
                        Reply("returned", TRUE, "", counter)))
  /\ UNCHANGED <<now, questions, results, extends>>

\* start_quiz_session(time_limit_minutes) with or without a current user
call_start_quiz_session(t, user, time_limit) ==
  /\ Idle(t)
  /\ IF user = Anonymous
       THEN req' = ArriveDone(t, "start_quiz_session", user,
                        Reply("value_error", FALSE,
                              "User must be authenticated to start quiz", 0))
       ELSE create_new_session(t, "start_quiz_session", user, time_limit)
  /\ UNCHANGED <<now, questions, sessions, results, extends>>

\* get_quiz_score(form_data, results, session) with or without a current user
call_get_quiz_score(t, user, sid) ==
  /\ Idle(t)
  /\ IF user = Anonymous
       THEN req' = ArriveDone(t, "get_quiz_score", user,
                        Reply("value_error", FALSE,
                              "User must be authenticated to score quiz", 0))
       ELSE req' = Arrive(t, "get_quiz_score", user, 0, sid,
                          IF sid = NoSession THEN "score" ELSE "svc_validate")
  /\ UNCHANGED <<now, questions, sessions, results, extends>>

\* get_active_quiz_session() with or without a current user: the session
\* found, or None.
call_get_active_quiz_session(t, user) ==
  /\ Idle(t)
  /\ \E sid \in get_active_quiz_session(user) :
       req' = [req EXCEPT ![t] =
         [IdleRequest EXCEPT !.pc = "done",
            !.name = "get_active_quiz_session", !.user = user, !.sid = sid,
            !.ret = IF sid = NoSession
                      THEN Reply("no_session", FALSE, "", 0)
                      ELSE Reply("session", TRUE, "", 0)]]
  /\ UNCHANGED <<now, questions, sessions, results, extends>>

(***************************************************************************)
(* Specifications.                                                         *)
(***************************************************************************)
\* The user the scripts run as: User.query.first().
ScriptUser == 1

\* The HTTP requests of the authenticated users of a set arriving at thread t.
Requests(t, users) ==
  \E user \in users :
    \/ quiz_get(t, user)
    \/ quiz_post(t, user)
    \/ quiz_status(t, user)
    \/ get_session_status(t, user)
    \/ session_heartbeat(t, user)
    \/ \E time_limit \in LimitInputs : create_session(t, user, time_limit)
    \/ abandon_quiz(t, user)
    \/ api_abandon_session(t, user)
    \/ \E k \in ExtensionInputs : extend_session(t, user, k)

\* The steps of the handlers.
Steps(t) ==
  \/ validate_step(t)
  \/ quiz_validate(t)
  \/ \E form_data \in FormInputs : quiz_expired(t, form_data)
  \/ get_quiz_score_validate(t)
  \/ \E form_data \in FormInputs : get_quiz_score_expired(t, form_data)
  \/ \E form_data \in FormInputs : get_quiz_score_complete(t, form_data)
  \/ create_new_session_abandon(t)
  \/ create_new_session_insert(t)
  \/ abandon_commit(t)
  \/ extend_commit(t)
  \/ Finish(t)

\* Requests are handled one at a time: they all arrive at one thread, which
\* takes the next one when it is idle.  One user is logged in.
Next ==
  \/ Tick
  \/ Requests(MainThread, {ScriptUser})
  \/ Steps(MainThread)

Spec == Init /\ [][Next]_vars

\* The same, with every user logged in.
NextUsers ==
  \/ Tick
  \/ Requests(MainThread, Users)
  \/ Steps(MainThread)

SpecUsers == Init /\ [][NextUsers]_vars

\* Additional minutes asked for, with the default of the handler and both
\* ends of the accepted range.
ExtensionInputsWide == {0, 1, 5, 30, 31}

\* Starting, extending and polling sessions, one request at a time.
NextExtend ==
  \/ Tick
  \/ quiz_get(MainThread, ScriptUser)
  \/ \E time_limit \in LimitInputs :
       create_session(MainThread, ScriptUser, time_limit)
  \/ \E k \in ExtensionInputsWide : extend_session(MainThread, ScriptUser, k)
  \/ session_heartbeat(MainThread, ScriptUser)
  \/ validate_step(MainThread)
  \/ create_new_session_abandon(MainThread)
  \/ create_new_session_insert(MainThread)
  \/ extend_commit(MainThread)
  \/ Finish(MainThread)

SpecExtend == Init /\ [][NextExtend]_vars

\* The direct calls a script makes.
Calls(t) ==
  \/ \E sid \in {NoSession} \cup SessionIds : call_validate_session_time(t, sid)
  \/ \E sid \in SessionIds, name \in TransitionNames :
       call_transition(t, name, sid)
  \/ \E user \in {Anonymous, ScriptUser}, time_limit \in LimitInputs \ {0} :
       call_start_quiz_session(t, user, time_limit)
  \/ \E user \in {Anonymous, ScriptUser},
        sid \in {NoSession} \cup SessionIds :
       call_get_quiz_score(t, user, sid)

CallSteps(t) ==
  \/ validate_step(t)
  \/ \E form_data \in FormInputs : transition_commit(t, form_data)
  \/ get_quiz_score_validate(t)
  \/ \E form_data \in FormInputs : get_quiz_score_expired(t, form_data)
  \/ \E form_data \in FormInputs : get_quiz_score_complete(t, form_data)
  \/ create_new_session_abandon(t)
  \/ create_new_session_insert(t)
  \/ Finish(t)

NextService ==
  \/ Tick
  \/ Calls(MainThread)
  \/ CallSteps(MainThread)

\* The service and model functions called directly, one call at a time.
SpecService == Init /\ [][NextService]_vars

\* Two requests of one user in flight at once, with no locking: a client
\* that starts sessions and submits on one thread, its heartbeat on the
\* other.  Every step is one database round trip.
SubmitThread == "r1"
HeartbeatThread == "r2"

NextRace ==
  \/ Tick
  \/ \E time_limit \in LimitInputs :
       create_session(SubmitThread, ScriptUser, time_limit)
  \/ quiz_post(SubmitThread, ScriptUser)
  \/ create_new_session_abandon(SubmitThread)
  \/ create_new_session_insert(SubmitThread)
  \/ quiz_validate(SubmitThread)
  \/ \E form_data \in FormInputs : quiz_expired(SubmitThread, form_data)
  \/ get_quiz_score_validate(SubmitThread)
  \/ \E form_data \in FormInputs :
       get_quiz_score_expired(SubmitThread, form_data)
  \/ \E form_data \in FormInputs :
       get_quiz_score_complete(SubmitThread, form_data)
  \/ Finish(SubmitThread)
  \/ session_heartbeat(HeartbeatThread, ScriptUser)
  \/ validate_step(HeartbeatThread)
  \/ Finish(HeartbeatThread)

SpecRace == Init /\ [][NextRace]_vars

\* Two POST /session/create requests of one user in flight at once: each
\* reads the active session of the user, then commits.
NextCreateRace ==
  \/ Tick
  \/ \E t \in Threads :
       \/ \E time_limit \in LimitInputs : create_session(t, ScriptUser, time_limit)
       \/ create_new_session_abandon(t)
       \/ create_new_session_insert(t)
       \/ Finish(t)

SpecCreateRace == Init /\ [][NextCreateRace]_vars

\* Repeated extensions of a session created with the longest limit.  The
\* counter extends starts below zero so that ExtendCalls extends fit under
\* the cap MaxExtends of the exploration.
ExtendCalls == 3
LimitInputsWide == {0, 1, 180, 181}
ExtensionInputsCap == {0, 1, 30, 31}

InitExtendCap ==
  /\ now = 0
  /\ questions = <<>>
  /\ sessions = <<>>
  /\ results = [u \in Users |-> <<>>]
  /\ req = [t \in Threads |-> IdleRequest]
  /\ extends = MaxExtends - ExtendCalls

NextExtendCap ==
  \/ Tick
  \/ \E time_limit \in LimitInputsWide :
       create_session(MainThread, ScriptUser, time_limit)
  \/ \E k \in ExtensionInputsCap : extend_session(MainThread, ScriptUser, k)
  \/ create_new_session_abandon(MainThread)
  \/ create_new_session_insert(MainThread)
  \/ extend_commit(MainThread)
  \/ Finish(MainThread)

SpecExtendCap == InitExtendCap /\ [][NextExtendCap]_vars

\* Submissions whose form holds several keys for one question: the keys of
\* request.form are texts, and "1" and "01" are different keys.
RepeatedKeyForms ==
  {EmptyForm,
   Form1(<<"1">>, Saturn),
   Form2(<<"1">>, Saturn, <<"0", "1">>, Saturn),
   Form2(<<"1">>, Mars, <<"0", "1">>, Saturn)}

InitSubmit ==
  /\ now = 0
  /\ questions = <<Question(1, Saturn)>>
  /\ sessions = <<>>
  /\ results = [u \in Users |-> <<>>]
  /\ req = [t \in Threads |-> IdleRequest]
  /\ extends = 0

NextSubmit ==
  \/ Tick
  \/ \E time_limit \in LimitInputs :
       create_session(MainThread, ScriptUser, time_limit)
  \/ quiz_post(MainThread, ScriptUser)
  \/ create_new_session_abandon(MainThread)
  \/ create_new_session_insert(MainThread)
  \/ quiz_validate(MainThread)
  \/ \E form_data \in RepeatedKeyForms : quiz_expired(MainThread, form_data)
  \/ get_quiz_score_validate(MainThread)
  \/ \E form_data \in RepeatedKeyForms :
       get_quiz_score_expired(MainThread, form_data)
  \/ \E form_data \in RepeatedKeyForms :
       get_quiz_score_complete(MainThread, form_data)
  \/ Finish(MainThread)

SpecSubmit == InitSubmit /\ [][NextSubmit]_vars

\* A user who starts and extends one-minute sessions until the time MaxTime
\* while the client's heartbeat keeps arriving on its own thread.  The
\* requests issued until MaxTime are answered before the clock moves past
\* MaxTime; it then runs on to LiveHorizon, by when every session started
\* and extended that way has run out of time.
LiveHorizon == MaxTime + (1 + MaxExtends) * TicksPerMinute

TickLive ==
  /\ now < LiveHorizon
  /\ now >= MaxTime => req[SubmitThread].pc \in {"idle", "done"}
  /\ now' = now + 1
  /\ UNCHANGED <<questions, sessions, results, req, extends>>

NextLive ==
  \/ TickLive
  \/ now <= MaxTime /\ create_session(SubmitThread, ScriptUser, MinTimeLimit)
  \/ now <= MaxTime /\ extend_session(SubmitThread, ScriptUser, MinExtension)
  \/ create_new_session_abandon(SubmitThread)
  \/ create_new_session_insert(SubmitThread)
  \/ extend_commit(SubmitThread)
  \/ Finish(SubmitThread)
  \/ session_heartbeat(HeartbeatThread, ScriptUser)
  \/ validate_step(HeartbeatThread)
  \/ Finish(HeartbeatThread)

\* The clock keeps advancing, heartbeats keep arriving and every request is
\* handled to its reply.
SpecLive ==
  /\ Init
  /\ [][NextLive]_vars
  /\ WF_vars(TickLive)
  /\ WF_vars(create_new_session_abandon(SubmitThread))
  /\ WF_vars(create_new_session_insert(SubmitThread))
  /\ WF_vars(extend_commit(SubmitThread))
  /\ WF_vars(session_heartbeat(HeartbeatThread, ScriptUser))
  /\ WF_vars(validate_step(HeartbeatThread))
  /\ WF_vars(Finish(HeartbeatThread))

\* The service functions that look at the current user, called with and
\* without one.
AuthCallers == {Anonymous, ScriptUser}

AuthCalls(t) ==
  \E user \in AuthCallers :
    \/ \E time_limit \in LimitInputs \ {0} :
         call_start_quiz_session(t, user, time_limit)
    \/ call_get_active_quiz_session(t, user)
    \/ \E sid \in {NoSession} \cup SessionIds :
         call_get_quiz_score(t, user, sid)

NextAuth ==
  \/ Tick
  \/ AuthCalls(MainThread)
  \/ get_quiz_score_validate(MainThread)
  \/ \E form_data \in FormInputs : get_quiz_score_expired(MainThread, form_data)
  \/ \E form_data \in FormInputs : get_quiz_score_complete(MainThread, form_data)
  \/ create_new_session_abandon(MainThread)
  \/ create_new_session_insert(MainThread)
  \/ Finish(MainThread)

SpecAuth == Init /\ [][NextAuth]_vars

(***************************************************************************)
(* The timing properties of a session, read at a clock that is finer than  *)
(* a second.                                                               *)
(***************************************************************************)
TimingTicksPerSecond == 2
TimingTicksPerMinute == 60 * TimingTicksPerSecond
TimingMaxClock == 2 * TimingTicksPerMinute + 2
TimingLimits == {0, 1, 2}
TimingStarts == {0, 1}

\* Mutation of time_remaining_seconds: the status is not looked at.
time_remaining_seconds_any_status(s, t, ticksPerMinute) ==
  LET expiry == s.start_time + s.time_limit_minutes * ticksPerMinute
  IN IF t >= expiry THEN 0
     ELSE ((expiry - t) * 60) \div ticksPerMinute

\* QuizSession.time_remaining_seconds at the clock value t; int() drops the
\* fraction of a second.
time_remaining_seconds(s, t, ticksPerMinute) ==
  IF s.status # "active" THEN 0
  ELSE LET expiry == s.start_time + s.time_limit_minutes * ticksPerMinute
       IN IF t >= expiry THEN 0
          ELSE ((expiry - t) * 60) \div ticksPerMinute

\* One stored session of any status, started at or just after time 0.
InitTiming ==
  /\ now = 0
  /\ questions = <<>>
  /\ \E start \in TimingStarts, limit \in TimingLimits,
        status \in {"active"} \cup Terminal :
       sessions = << [QuizSession(ScriptUser, limit, start) EXCEPT
                        !.status = status,
                        !.end_time = IF status = "active" THEN NoTime
                                                          ELSE start] >>
  /\ results = [u \in Users |-> <<>>]
  /\ req = [t \in Threads |-> IdleRequest]
  /\ extends = 0

TickTiming ==
  /\ now < TimingMaxClock
  /\ now' = now + 1
  /\ UNCHANGED <<questions, sessions, results, req, extends>>

\* session.time_remaining_seconds read on a stored session.
call_time_remaining_seconds(t, sid) ==
  /\ Idle(t)
  /\ now >= sessions[sid].start_time
  /\ req' = [req EXCEPT ![t] =
       [IdleRequest EXCEPT !.pc = "done", !.name = "time_remaining_seconds",
          !.sid = sid,
          !.ret = Reply("returned", TRUE, "",
                    time_remaining_seconds(sessions[sid], now,
                                           TimingTicksPerMinute))]]
  /\ UNCHANGED <<now, questions, sessions, results, extends>>

\* seconds_between(start_time, utc_now()): int() drops the fraction of a
\* second towards zero, also when the clock reads less than start_time.
time_elapsed_seconds(s, t, ticksPerMinute) ==
  IF t >= s.start_time
  THEN ((t - s.start_time) * 60) \div ticksPerMinute
  ELSE 0 - (((s.start_time - t) * 60) \div ticksPerMinute)

\* The unit in which progress_percentage is written below: the quotient
\* elapsed / total_time is a fraction with denominator total_time.
progress_unit(s) ==
  IF s.time_limit_minutes * 60 = 0 THEN 1 ELSE s.time_limit_minutes * 60

\* Mutation of progress_percentage: the quotient is returned as computed.
progress_percentage_unclamped(s, t, ticksPerMinute) ==
  LET elapsed == time_elapsed_seconds(s, t, ticksPerMinute)
      total_time == s.time_limit_minutes * 60
  IN IF total_time = 0 THEN 100
     ELSE elapsed * 100

\* QuizSession.progress_percentage at the clock value t, as a number of
\* progress_unit(s)-ths of a percent: (elapsed / total_time) * 100 is
\* elapsed * 100 of them, and 100 is 100 * total_time of them.
progress_percentage(s, t, ticksPerMinute) ==
  LET elapsed == time_elapsed_seconds(s, t, ticksPerMinute)
      total_time == s.time_limit_minutes * 60
      progress == elapsed * 100
      floor == IF progress > 0 THEN progress ELSE 0
  IN IF total_time = 0 THEN 100
     ELSE IF floor < 100 * total_time THEN floor ELSE 100 * total_time

\* session.progress_percentage read on a stored session.
call_progress_percentage(t, sid) ==
  /\ Idle(t)
  /\ req' = [req EXCEPT ![t] =
       [IdleRequest EXCEPT !.pc = "done", !.name = "progress_percentage",
          !.sid = sid,
          !.ret = Reply("returned", TRUE, "",
                    progress_percentage(sessions[sid], now,
                                        TimingTicksPerMinute))]]
  /\ UNCHANGED <<now, questions, sessions, results, extends>>

NextTiming ==
  \/ TickTiming
  \/ \E sid \in SessionIds : call_time_remaining_seconds(MainThread, sid)
  \/ \E sid \in SessionIds : call_progress_percentage(MainThread, sid)
  \/ Finish(MainThread)

SpecTiming == InitTiming /\ [][NextTiming]_vars

(***************************************************************************)
(* The scorer called directly, as the scoring test does, on any mapping.   *)
(***************************************************************************)
MaxFormEntries == 2

\* A submitted value that is not text (None).
NoneValue == <<"None">>

ScoreBank3 == <<Question(1, Saturn), Question(2, Au), Question(3, Paris)>>

ScoreBanks ==
  { <<>>, <<Question(1, Saturn)>>, <<Question(1, Saturn), Question(2, Au)>>,
    ScoreBank3 }

ScoreKeys ==
  { <<"1">>, <<"2">>, <<"3">>, <<"0","1">>, <<" ","2">>, <<"9">>,
    <<"x">>, <<>>, <<"1",".","0">> }

ScoreAnswers ==
  { Saturn, <<" ","s","a","t","u","r","n"," ">>, <<"S","A","T","U","R","N">>,
    Au, <<"\t","A","U">>, Paris, Mars, <<>>, NoneValue }

\* form_data[str(q.id)] = q.answer for every question.
CanonicalForm(bank) ==
  [k \in {<<DigitChars[bank[j].id + 1]>> : j \in 1..Len(bank)} |->
     bank[CHOOSE j \in 1..Len(bank) : <<DigitChars[bank[j].id + 1]>> = k].answer]

ScoreForms ==
  UNION {[K -> ScoreAnswers] :
           K \in {X \in SUBSET ScoreKeys : Cardinality(X) <= MaxFormEntries}}
    \cup {CanonicalForm(bank) : bank \in ScoreBanks}

\* ans.strip() on a value that is not text raises AttributeError, which the
\* except clause of calculate_score does not catch; it is evaluated only
\* for an id that parses and belongs to the question map.
AttributeErrorRaised(form_data, bank) ==
  \E id_str \in DOMAIN form_data :
    /\ ParseInt(id_str).ok
    /\ ParseInt(id_str).val \in DOMAIN question_map(bank)
    /\ form_data[id_str] = NoneValue

InitScore ==
  /\ now = 0
  /\ questions \in ScoreBanks
  /\ sessions = <<>>
  /\ results = [u \in Users |-> <<>>]
  /\ req = [t \in Threads |-> IdleRequest]
  /\ extends = 0

\* calculate_score(form_data, questions)
call_calculate_score(t, form_data) ==
  /\ Idle(t)
  /\ req' = [req EXCEPT ![t] =
       [IdleRequest EXCEPT !.pc = "done", !.name = "calculate_score",
          !.form = form_data,
          !.ret = IF AttributeErrorRaised(form_data, questions)
                    THEN Reply("attribute_error", FALSE, "", 0)
                    ELSE Reply("returned", TRUE, "",
                               calculate_score(form_data, questions))]]
  /\ UNCHANGED <<now, questions, sessions, results, extends>>

NextScore ==
  \/ \E form_data \in ScoreForms : call_calculate_score(MainThread, form_data)
  \/ Finish(MainThread)

SpecScore == InitScore /\ [][NextScore]_vars

(***************************************************************************)
(* Properties.                                                             *)
(***************************************************************************)
Ids == 1..Len(sessions)

\* The request thread t takes a step at position pc.
StepsAt(t, pc) == req[t].pc = pc /\ req'[t].pc # pc

ScoredPart(s) ==
  <<s.status, s.end_time, s.score, s.total_questions>>

\* C1: every stored session has end_time set if and only if its status is
\* not 'active'.
C1_EndTimeIffNotActive ==
  \A i \in Ids : (sessions[i].end_time # NoTime) <=> (sessions[i].status # "active")

\* C1 witness: an active session next to a terminal one, both stored.
C1_Witness ==
  \E i, j \in Ids :
    /\ sessions[i].status \in Terminal /\ sessions[i].end_time # NoTime
    /\ sessions[j].status = "active" /\ sessions[j].end_time = NoTime

\* C2: each user has at most one session whose status is 'active'.
C2_AtMostOneActive ==
  \A user \in Users : Cardinality(ActiveIds(user)) <= 1

\* C2 witness: a user started a second session while the first was active.
C2_Witness ==
  \E i, j \in Ids :
    /\ i # j /\ sessions[i].user_id = sessions[j].user_id
    /\ sessions[i].status = "abandoned" /\ sessions[j].status = "active"

\* C3: once the stored status of a session is completed, timeout or
\* abandoned, no step of any request changes it.
C3_TerminalAbsorbing ==
  [][\A i \in Ids :
       sessions[i].status \in Terminal =>
         sessions'[i].status = sessions[i].status]_vars

\* C3 witness: a submit has re-recorded a session that was already timed out.
C3_Witness ==
  \E t \in Threads :
    /\ req[t].pc = "done" /\ req[t].ret.code = "timeout_error"
    /\ sessions[req[t].sid].status = "timeout"

\* C4: once end_time is non-null no step changes it, the steps inside one
\* submit included.
C4_EndTimeWrittenOnce ==
  [][\A i \in Ids :
       sessions[i].end_time # NoTime =>
         sessions'[i].end_time = sessions[i].end_time]_vars

\* C5: complete_session, timeout_session and abandon_session invoked on a
\* session that is already terminal leave status, end_time, score and
\* total_questions unchanged.
C5_TransitionsOnlyFromActive ==
  [][\A t \in Threads :
       (/\ StepsAt(t, "transition")
        /\ sessions[req[t].sid].status \in Terminal)
       => ScoredPart(sessions'[req[t].sid]) = ScoredPart(sessions[req[t].sid])]_vars

\* C6: create_new_session(u, m) abandons the active session of u it found
\* (end_time set), then adds a different session owned by u that is active,
\* starts now, has no end_time and has the limit m; with no active session
\* it only adds the new session.
C6_CreateNewSession ==
  [][\A t \in Threads :
       LET r == req[t] IN
       /\ (req[t].pc = "idle" /\ req'[t].pc \in {"create_abandon", "create_insert"})
          => /\ (req'[t].sid = NoSession) <=> (ActiveIds(req'[t].user) = {})
             /\ req'[t].sid # NoSession => req'[t].sid \in ActiveIds(req'[t].user)
             /\ (req'[t].pc = "create_abandon") <=> (req'[t].sid # NoSession)
             /\ sessions' = sessions
       /\ StepsAt(t, "create_abandon")
          => /\ req'[t].pc = "create_insert"
             /\ sessions'[r.sid].status = "abandoned"
             /\ sessions'[r.sid].end_time = now
             /\ Len(sessions') = Len(sessions)
             /\ \A i \in Ids \ {r.sid} : sessions'[i] = sessions[i]
       /\ StepsAt(t, "create_insert")
          => LET n == req'[t].newsid IN
             /\ req'[t].pc = "done"
             /\ n = Len(sessions) + 1 /\ n # r.sid /\ Len(sessions') = n
             /\ sessions'[n].user_id = r.user
             /\ sessions'[n].status = "active"
             /\ sessions'[n].start_time = now
             /\ sessions'[n].end_time = NoTime
             /\ sessions'[n].time_limit_minutes = r.minutes
             /\ \A i \in Ids : sessions'[i] = sessions[i]
             /\ r.sid # NoSession =>
                  /\ sessions'[r.sid].status = "abandoned"
                  /\ sessions'[r.sid].end_time # NoTime]_vars

\* C6 witness: create_new_session returned after abandoning a prior session.
C6_Witness ==
  \E t \in Threads :
    /\ req[t].pc = "done" /\ req[t].ret.code = "created"
    /\ req[t].sid # NoSession
    /\ sessions[req[t].sid].status = "abandoned"
    /\ sessions[req[t].newsid].status = "active"

\* C7: validate_session_time on a session that is active and whose time is
\* up stores it as 'timeout' with end_time set and score 0 of 0, and returns
\* invalid with the message that the time has expired.
C7_LazyTimeout ==
  [][\A t \in Threads, pc \in {"validate", "route_validate", "svc_validate"} :
       LET s == req[t].sid IN
       (/\ StepsAt(t, pc)
        /\ sessions[s].status = "active"
        /\ now >= sessions[s].start_time
                    + sessions[s].time_limit_minutes * TicksPerMinute)
       => /\ sessions'[s].status = "timeout"
          /\ sessions'[s].end_time = now
          /\ sessions'[s].score = 0
          /\ sessions'[s].total_questions = 0
          /\ req'[t].ret.valid = FALSE
          /\ req'[t].ret.message = "Quiz time has expired"]_vars

\* C7 witness: a status request found its session expired and timed it out.
C7_Witness ==
  \E t \in Threads :
    /\ req[t].pc = "done" /\ req[t].name = "status"
    /\ req[t].ret.code = "expired"
    /\ sessions[req[t].sid].status = "timeout"
    /\ sessions[req[t].sid].score = 0

\* C8: validate_session_time on a session that is already terminal returns
\* invalid and leaves status, end_time, score and total_questions unchanged.
C8_ValidateTerminalUnchanged ==
  [][\A t \in Threads :
       (/\ StepsAt(t, "validate")
        /\ sessions[req[t].sid].status \in Terminal)
       => /\ req'[t].ret.valid = FALSE
          /\ ScoredPart(sessions'[req[t].sid]) = ScoredPart(sessions[req[t].sid])]_vars

\* C9: a submit on an active session that is not expired returns with the
\* session completed, its score that of the answers, its total the number of
\* questions, and the QuizResult of the user equal to that score, whatever
\* the answers.
C9_SubmitCompletes ==
  \A t \in Threads :
    LET r == req[t] IN
    (r.pc = "done" /\ r.name = "quiz_post" /\ r.ret.code = "score"
       /\ r.sid # NoSession)
    => /\ sessions[r.sid].status = "completed"
       /\ sessions[r.sid].score = calculate_score(r.form, questions)
       /\ sessions[r.sid].total_questions = Len(questions)
       /\ results[r.user] # <<>>
       /\ \A i \in 1..Len(results[r.user]) :
            results[r.user][i] = calculate_score(r.form, questions)

\* C10: a submit whose validity check finds the session expired fails with
\* the time-expired error and leaves the session stored as 'timeout' with
\* the score of the supplied answers and the number of questions.
C10_ExpiredSubmit ==
  [][\A t \in Threads :
       LET r == req[t] IN
       /\ (StepsAt(t, "svc_validate") /\ is_expired(r.obj, now))
          => req'[t].pc = "partial"
       /\ StepsAt(t, "partial")
          => /\ req'[t].pc = "done"
             /\ req'[t].ret.code = "timeout_error"
             /\ req'[t].ret.message = "Quiz time has expired"
             /\ sessions'[r.sid].status = "timeout"
             /\ sessions'[r.sid].score =
                  calculate_score(req'[t].form, questions)
             /\ sessions'[r.sid].total_questions = Len(questions)]_vars

\* C10 witness: an expired submit recorded a partial score above zero.
C10_Witness ==
  \E t \in Threads :
    /\ req[t].pc = "done" /\ req[t].ret.code = "timeout_error"
    /\ sessions[req[t].sid].status = "timeout"
    /\ sessions[req[t].sid].score = 1
    /\ sessions[req[t].sid].total_questions = 1

\* C11: a POST /quiz that arrives for the active session of the user after
\* its time is up is answered with the expired outcome carrying the partial
\* score of the submitted answers, and the session is stored as 'timeout'
\* with that partial score.
C11_ExpiredPostPartialScore ==
  \A t \in Threads :
    LET r == req[t] IN
    (r.pc = "done" /\ r.name = "quiz_post"
       /\ r.ret.code \in {"expired", "timeout_error"})
    => /\ r.ret.score = calculate_score(r.form, questions)
       /\ sessions[r.sid].status = "timeout"
       /\ sessions[r.sid].score = calculate_score(r.form, questions)

\* C12: with submits handled one at a time every user has at most one
\* QuizResult row: the first submit creates it, later ones overwrite it.
C12_OneResultPerUser ==
  \A user \in Users : Len(results[user]) <= 1

\* C12 witness: a user has completed two quizzes and has one QuizResult row.
C12_Witness ==
  \E user \in Users :
    /\ Len(results[user]) = 1
    /\ \E i, j \in Ids :
         /\ i # j
         /\ sessions[i].user_id = user /\ sessions[i].status = "completed"
         /\ sessions[j].user_id = user /\ sessions[j].status = "completed"

\* The completed sessions of a user.
CompletedIds(user) ==
  {i \in Ids : sessions[i].user_id = user /\ sessions[i].status = "completed"}

\* C13: for every user with a completed session, the QuizResult of the user
\* holds the score stored on the most recently completed session of the
\* user (one of them when several were completed at the same instant).
C13_ResultIsLastCompleted ==
  \A user \in Users :
    CompletedIds(user) # {} =>
      /\ results[user] # <<>>
      /\ \E i \in CompletedIds(user) :
           /\ \A j \in CompletedIds(user) :
                sessions[j].end_time <= sessions[i].end_time
           /\ \A k \in 1..Len(results[user]) :
                results[user][k] = sessions[i].score

\* C14: for an active session with limit L and every k in 1..30, extend(k)
\* is accepted and stores time_limit_minutes = L + k, leaving status,
\* start_time, end_time, score and total_questions (and every other session)
\* as they were.
C14_ExtendAdds ==
  [][\A t \in Threads :
       LET r == req[t] IN
       /\ \A user \in Users, k \in MinExtension..MaxExtension :
            (extend_session(t, user, k) /\ ActiveIds(user) # {})
            => /\ req'[t].pc = "extend"
               /\ req'[t].minutes = k
               /\ req'[t].sid \in ActiveIds(user)
               /\ sessions' = sessions
       /\ StepsAt(t, "extend")
          => /\ sessions[r.sid].status = "active"
             /\ sessions' = [sessions EXCEPT ![r.sid].time_limit_minutes =
                                sessions[r.sid].time_limit_minutes + r.minutes]
             /\ req'[t].ret.code = "extended"]_vars

\* C14 witness: a 30 minute session was extended by 5 minutes and has 35.
C14_Witness ==
  \E t \in Threads :
    /\ req[t].pc = "done" /\ req[t].ret.code = "extended"
    /\ sessions[req[t].sid].status = "active"
    /\ sessions[req[t].sid].time_limit_minutes = DefaultQuizMinutes + 5

\* C15: a create-session request with a limit outside 1..180 and an extend
\* request with additional minutes outside 1..30 are answered with an error
\* and leave the stored sessions and results as they were.
C15_OutOfRangeRejected ==
  [][\A t \in Threads, user \in Users :
       /\ \A time_limit \in LimitInputs :
            ((time_limit < 1 \/ time_limit > 180)
               /\ create_session(t, user, time_limit))
            => /\ req'[t].pc = "done"
               /\ req'[t].ret.code = "bad_request"
               /\ req'[t].ret.message =
                    "Time limit must be between 1 and 180 minutes"
               /\ UNCHANGED <<sessions, results, extends>>
       /\ \A k \in ExtensionInputs :
            ((k < 1 \/ k > 30) /\ extend_session(t, user, k))
            => /\ req'[t].pc = "done"
               /\ req'[t].ret.code = "bad_request"
               /\ req'[t].ret.message =
                    "Additional time must be between 1 and 30 minutes"
               /\ UNCHANGED <<sessions, results, extends>>]_vars

\* C15 witness: a create-session request was rejected while the user had an
\* active session, which is still active.
C15_Witness ==
  \E t \in Threads :
    /\ req[t].pc = "done" /\ req[t].name = "create_session"
    /\ req[t].ret.code = "bad_request"
    /\ ActiveIds(req[t].user) # {}

\* C16: once the time of an active session is up, the session reads expired
\* in every later state: no request makes is_expired false again.
C16_NoTimeoutCancellation ==
  [][\A i \in Ids :
       (/\ sessions[i].status = "active"
        /\ now >= sessions[i].start_time
                    + sessions[i].time_limit_minutes * TicksPerMinute)
       => \/ sessions'[i].status # "active"
          \/ now' >= sessions'[i].start_time
                       + sessions'[i].time_limit_minutes * TicksPerMinute]_vars

\* C17: time_remaining_seconds is 0 when the status is not 'active' or the
\* clock has reached the expiry, otherwise the whole number of seconds from
\* the clock to start_time + time_limit_minutes; it is never negative, and
\* read at the start time of an active session it is time_limit_minutes * 60.
C17_TimeRemaining ==
  [][\A t \in Threads :
       (req[t].pc = "idle" /\ req'[t].name = "time_remaining_seconds")
       => LET s == sessions[req'[t].sid]
              v == req'[t].ret.score
              expiry == s.start_time
                          + s.time_limit_minutes * 60 * TimingTicksPerSecond
          IN /\ v >= 0
             /\ (s.status # "active" \/ now >= expiry) => v = 0
             /\ (s.status = "active" /\ now < expiry)
                  => /\ v * TimingTicksPerSecond <= expiry - now
                     /\ expiry - now < (v + 1) * TimingTicksPerSecond
             /\ (s.status = "active" /\ now = s.start_time)
                  => v = s.time_limit_minutes * 60]_vars

\* C17 witness: the remaining time of an active session was read a fraction
\* of a second before a whole number of seconds, and the fraction was dropped.
C17_Witness ==
  \E t \in Threads :
    LET s == sessions[req[t].sid]
        left == s.start_time + s.time_limit_minutes * TimingTicksPerMinute - now
    IN /\ req[t].pc = "done" /\ req[t].name = "time_remaining_seconds"
       /\ s.status = "active"
       /\ req[t].ret.score > 0
       /\ left > req[t].ret.score * TimingTicksPerSecond

\* C18: the passage of time alone changes no stored state: when the clock
\* advances the sessions and results stay as they are, and an active
\* session whose time is up stays 'active', reads expired and is still what
\* get_active_session returns for its user.
C18_LazyExpiry ==
  [][now' # now =>
       /\ sessions' = sessions
       /\ results' = results
       /\ \A i \in Ids :
            (/\ sessions[i].status = "active"
             /\ now' >= sessions[i].start_time
                          + sessions[i].time_limit_minutes * TicksPerMinute)
            => /\ sessions'[i].status = "active"
               /\ is_expired(sessions[i], now)'
               /\ i \in get_active_session(sessions[i].user_id)']_vars

\* C18 witness: the time of a session is up and it is still stored as
\* 'active', with no request in progress.
C18_Witness ==
  /\ \A t \in Threads : req[t].pc = "idle"
  /\ \E i \in Ids :
       /\ sessions[i].status = "active"
       /\ now >= sessions[i].start_time
                   + sessions[i].time_limit_minutes * TicksPerMinute
       /\ i \in get_active_session(sessions[i].user_id)

\* C19: a status or heartbeat request changes no stored state except the
\* lazy timeout of the caller's own active session whose time is up; with
\* no active session it answers not-found and changes nothing; with an
\* active session whose time is not up it answers valid and changes nothing.
C19_StatusFrame ==
  [][\A t \in Threads :
       /\ \A user \in Users :
            StatusRequest(t, user)
            => /\ UNCHANGED <<sessions, results>>
               /\ ActiveIds(user) = {}
                    => /\ req'[t].pc = "done"
                       /\ req'[t].ret.code = "not_found"
               /\ ActiveIds(user) # {}
                    => /\ req'[t].pc = "validate"
                       /\ req'[t].sid \in ActiveIds(user)
       /\ (StepsAt(t, "validate") /\ req[t].name = "status")
          => LET i == req[t].sid
                 s == sessions[i]
             IN /\ results' = results
                /\ s.user_id = req[t].user
                /\ \A j \in Ids \ {i} : sessions'[j] = sessions[j]
                /\ IF /\ s.status = "active"
                      /\ now >= s.start_time
                                  + s.time_limit_minutes * TicksPerMinute
                     THEN /\ sessions'[i] = [s EXCEPT !.status = "timeout",
                                                      !.end_time = now]
                          /\ req'[t].ret.valid = FALSE
                     ELSE /\ sessions'[i] = s
                          /\ s.status = "active" => req'[t].ret.valid = TRUE]_vars

\* C19 witness: a status request found the session of the caller within its
\* time and answered valid, the session still being active.
C19_Witness ==
  \E t \in Threads :
    /\ req[t].pc = "done" /\ req[t].name = "status"
    /\ req[t].ret.valid = TRUE
    /\ sessions[req[t].sid].status = "active"
    /\ sessions[req[t].sid].user_id = req[t].user

\* C20: abandon on the active session of the user stores status 'abandoned'
\* and end_time = now and leaves score, total_questions, start_time and
\* time_limit_minutes (and every other session and the results) as they
\* were; with no active session abandon changes no stored state.
C20_AbandonFrame ==
  [][\A t \in Threads :
       /\ \A user \in Users :
            AbandonRequest(t, user)
            => /\ UNCHANGED <<sessions, results>>
               /\ ActiveIds(user) = {} => req'[t].pc = "done"
               /\ ActiveIds(user) # {}
                    => /\ req'[t].pc = "abandon"
                       /\ req'[t].sid \in ActiveIds(user)
       /\ StepsAt(t, "abandon")
          => /\ sessions[req[t].sid].status = "active"
             /\ sessions' = [sessions EXCEPT ![req[t].sid] =
                                [@ EXCEPT !.status = "abandoned",
                                          !.end_time = now]]
             /\ results' = results
             /\ req'[t].pc = "done"]_vars

\* C20 witness: an abandon request has abandoned the session of the caller.
C20_Witness ==
  \E t \in Threads :
    /\ req[t].pc = "done" /\ req[t].name = "abandon"
    /\ req[t].ret.code = "abandoned"
    /\ sessions[req[t].sid].status = "abandoned"
    /\ sessions[req[t].sid].end_time # NoTime

\* The id a submitted key stands for, for the keys that are integer text.
NumericKeys ==
  [k \in { <<"1">>, <<"2">>, <<"3">>, <<"0","1">>, <<" ","2">>, <<"9">> } |->
     CASE k = <<"1">> -> 1 [] k = <<"2">> -> 2 [] k = <<"3">> -> 3
       [] k = <<"0","1">> -> 1 [] k = <<" ","2">> -> 2 [] OTHER -> 9]

\* Submitted answers that match a canonical answer.
MatchingAnswers(answer) ==
  CASE answer = Saturn ->
         { Saturn, <<" ","s","a","t","u","r","n"," ">>,
           <<"S","A","T","U","R","N">> }
    [] answer = Au -> { Au, <<"\t","A","U">> }
    [] OTHER -> { answer }

\* The entries of a form that name a question of the list and carry a
\* matching answer.
CorrectEntries(form_data, bank) ==
  {k \in DOMAIN form_data \cap DOMAIN NumericKeys :
     \E j \in 1..Len(bank) :
       /\ bank[j].id = NumericKeys[k]
       /\ form_data[k] \in MatchingAnswers(bank[j].answer)}

\* A finished direct call of calculate_score that returned.
Scored(t) ==
  /\ req[t].pc = "done" /\ req[t].name = "calculate_score"
  /\ req[t].ret.code = "returned"

\* C21: calculate_score returns the number of submitted entries whose id
\* parses to the id of a question and whose answer matches the canonical
\* answer of that question; the canonical answers of n questions give n, and
\* {1: Saturn, 2: Au} against 1=Saturn, 2=Au, 3=Paris gives 2.
C21_ScoreCounts ==
  \A t \in Threads :
    Scored(t) =>
      /\ req[t].ret.score = Cardinality(CorrectEntries(req[t].form, questions))
      /\ req[t].form = CanonicalForm(questions)
           => req[t].ret.score = Len(questions)
      /\ (req[t].form = Form2(<<"1">>, Saturn, <<"2">>, Au)
             /\ questions = ScoreBank3)
           => req[t].ret.score = 2

\* C21 witness: {1: Saturn, 2: Au} was scored against the three questions.
C21_Witness ==
  \E t \in Threads :
    /\ Scored(t)
    /\ questions = ScoreBank3
    /\ req[t].form = Form2(<<"1">>, Saturn, <<"2">>, Au)
    /\ req[t].ret.score = 2

\* C22: an entry for a question whose answer differs from the canonical
\* answer only in letter case or in leading and trailing whitespace is
\* counted as correct ("Saturn", " saturn ", "SATURN" all match "Saturn").
C22_CaseAndWhitespace ==
  \A t \in Threads :
    Scored(t) =>
      \A j \in 1..Len(questions) :
        LET k == <<DigitChars[questions[j].id + 1]>> IN
        (/\ k \in DOMAIN req[t].form
         /\ req[t].form[k] \in MatchingAnswers(questions[j].answer))
        => /\ req[t].ret.score >= 1
           /\ DOMAIN req[t].form = {k} => req[t].ret.score = 1
           /\ req[t].ret.score =
                1 + calculate_score([x \in DOMAIN req[t].form \ {k} |->
                                       req[t].form[x]], questions)

\* C22 witness: "SATURN" was submitted for the question whose canonical
\* answer is "Saturn" and counted.
C22_Witness ==
  \E t \in Threads :
    /\ Scored(t)
    /\ questions = <<Question(1, Saturn)>>
    /\ req[t].form = Form1(<<"1">>, <<"S","A","T","U","R","N">>)
    /\ req[t].ret.score = 1

\* An entry calculate_score has to skip: its id is not integer text, or no
\* question of the list has that id.
SkippedEntry(k, bank) ==
  \/ k \notin DOMAIN NumericKeys
  \/ \A j \in 1..Len(bank) : bank[j].id # NumericKeys[k]

\* C23: an entry whose id does not parse as an integer or belongs to no
\* question is skipped without raising and without counting: the score is
\* the score of the mapping without that entry, and 0 when every entry is
\* skipped.
C23_SkipsBadEntries ==
  \A t \in Threads :
    LET f == req[t].form IN
    (req[t].pc = "done" /\ req[t].name = "calculate_score")
    => /\ (\A k \in DOMAIN f : f[k] = NoneValue => SkippedEntry(k, questions))
            => req[t].ret.code = "returned"
       /\ Scored(t)
            => /\ \A k \in DOMAIN f :
                    SkippedEntry(k, questions)
                    => req[t].ret.score =
                         calculate_score([x \in DOMAIN f \ {k} |-> f[x]],
                                         questions)
               /\ (\A k \in DOMAIN f : SkippedEntry(k, questions))
                    => req[t].ret.score = 0

\* C23 witness: an entry with a non-numeric id was submitted with a correct
\* entry, and only the correct entry was counted.
C23_Witness ==
  \E t \in Threads :
    /\ Scored(t)
    /\ questions = <<Question(1, Saturn)>>
    /\ req[t].form = Form2(<<"x">>, Saturn, <<"1">>, Saturn)
    /\ req[t].ret.score = 1

\* C24: calculate_score is total: for any mapping, entries with a malformed
\* id or a value that is not text included, it returns a number and never
\* raises.
C24_ScoreTotal ==
  \A t \in Threads :
    (req[t].pc = "done" /\ req[t].name = "calculate_score")
    => req[t].ret.code = "returned"

\* C25: progress_percentage lies between 0 and 100 for every elapsed time
\* and time limit, an elapsed time beyond the limit included, and is 100
\* when the limit is zero.
C25_ProgressClamped ==
  [][\A t \in Threads, sid \in SessionIds :
       call_progress_percentage(t, sid)
       => LET s == sessions[sid]
              value == req'[t].ret.score
          IN /\ value >= 0
             /\ value <= 100 * progress_unit(s)
             /\ s.time_limit_minutes = 0 => value = 100
             /\ (/\ s.time_limit_minutes > 0
                 /\ now >= s.start_time
                           + s.time_limit_minutes * TimingTicksPerMinute)
                => value = 100 * progress_unit(s)
             /\ (s.time_limit_minutes > 0 /\ now <= s.start_time)
                => value = 0]_vars

\* C25 witness: the progress of a one-minute session was read after more
\* than a minute had elapsed, and read as 100.
C25_Witness ==
  \E t \in Threads :
    /\ req[t].pc = "done" /\ req[t].name = "progress_percentage"
    /\ sessions[req[t].sid].time_limit_minutes = 1
    /\ now > sessions[req[t].sid].start_time + TimingTicksPerMinute
    /\ req[t].ret.score = 100 * progress_unit(sessions[req[t].sid])

\* C26: start, get-active-session and submit called with no authenticated
\* user each signal a failure that differs from the "no active session"
\* outcome (and change no stored state).
C26_UnauthenticatedSignalled ==
  \A t \in Threads :
    (/\ req[t].pc = "done"
     /\ req[t].user = Anonymous
     /\ req[t].name \in {"start_quiz_session", "get_active_quiz_session",
                          "get_quiz_score"})
    => /\ req[t].ret.code # "no_session"
       /\ req[t].ret.code = "value_error"

\* C27: a session's start_time is the time of its creation and no later
\* operation (validity check, heartbeat, submit, abandon, extend, creation of
\* another session) changes it.
C27_StartTimeImmutable ==
  [][/\ \A i \in Ids : sessions'[i].start_time = sessions[i].start_time
     /\ Len(sessions') >= Len(sessions)
     /\ \A i \in 1..Len(sessions') :
          i \notin Ids => sessions'[i].start_time = now]_vars

\* C27 witness: a session created at time 0 was extended and later timed
\* out, and still has start_time 0.
C27_Witness ==
  \E i \in Ids :
    /\ sessions[i].start_time = 0
    /\ sessions[i].time_limit_minutes = 2
    /\ sessions[i].status = "timeout"
    /\ sessions[i].end_time = 2

\* C28: time_limit_minutes of a session changes only by an accepted extend
\* of that session while it is active, which adds the accepted minutes; no
\* other operation changes it and the limit of a terminal session never
\* changes.
C28_LimitOnlyByExtend ==
  [][\A i \in Ids :
       sessions'[i].time_limit_minutes # sessions[i].time_limit_minutes
       => /\ sessions[i].status = "active"
          /\ \E t \in Threads :
               /\ StepsAt(t, "extend")
               /\ req[t].name = "extend_session"
               /\ req[t].sid = i
               /\ req[t].minutes \in MinExtension..MaxExtension
               /\ sessions'[i].time_limit_minutes =
                    sessions[i].time_limit_minutes + req[t].minutes]_vars

\* C28 witness: an extend of one minute was accepted for an active
\* one-minute session, whose limit is now two minutes.
C28_Witness ==
  \E t \in Threads :
    /\ req[t].pc = "done" /\ req[t].name = "extend_session"
    /\ req[t].ret.code = "extended"
    /\ sessions[req[t].sid].status = "active"
    /\ sessions[req[t].sid].time_limit_minutes = 2

\* C29: each service operation applies its persistent effect in one commit,
\* so no stored state lies between the parts of an operation: while
\* create_new_session is between abandoning the prior session and inserting
\* the new one the prior session is not stored as abandoned, and while an
\* expired submit is between its validity check and the recording of the
\* partial score the session is not stored as timeout.
C29_SingleCommit ==
  \A t \in Threads :
    /\ (req[t].pc = "create_insert" /\ req[t].sid # NoSession)
         => sessions[req[t].sid].status # "abandoned"
    /\ req[t].pc = "partial"
         => sessions[req[t].sid].status # "timeout"

\* C30: a heartbeat and a submission of the same session interleave with no
\* locking; each applies its transition to the session it loaded as active,
\* and the status stored by each commit is the one that commit applied, so
\* the commit that comes last decides the stored status.
C30_LastCommitWins ==
  [][\A t \in Threads :
       /\ (StepsAt(t, "validate") /\ req'[t].ret.code = "expired")
            => /\ req[t].obj.status = "active"
               /\ sessions'[req[t].sid].status = "timeout"
       /\ (/\ StepsAt(t, "score")
           /\ req[t].sid # NoSession
           /\ questions # <<>>
           /\ req'[t].form # EmptyForm)
            => /\ req[t].obj.status = "active"
               /\ sessions'[req[t].sid].status = "completed"]_vars

\* Both requests of the race have answered for the same session, the
\* heartbeat with "expired" and the submission with a score.
RaceOver ==
  /\ req[SubmitThread].pc = "done" /\ req[HeartbeatThread].pc = "done"
  /\ req[SubmitThread].sid # NoSession
  /\ req[SubmitThread].sid = req[HeartbeatThread].sid
  /\ req[HeartbeatThread].ret.code = "expired"
  /\ req[SubmitThread].ret.code = "score"
  /\ req[SubmitThread].form # EmptyForm /\ questions # <<>>

\* C30 witness: the heartbeat committed last and the session of a scored
\* submission is stored as timeout.
C30_Witness == RaceOver /\ sessions[req[SubmitThread].sid].status = "timeout"

\* The other order of the same race: the submission committed last and the
\* session is stored as completed.
C30_WitnessCompleted ==
  RaceOver /\ sessions[req[SubmitThread].sid].status = "completed"

\* C31: when two create_new_session calls of one user interleave, the user
\* has at most one active session once both have finished.
C31_OneActiveAfterRace ==
  (\A t \in Threads : req[t].pc \in {"idle", "done"})
  => \A user \in Users : Cardinality(ActiveIds(user)) <= 1

\* C32: extensions are capped per call only: an extend of 1..30 minutes on
\* an active session is accepted whatever the limit has grown to, each one
\* adds its minutes, so the limit can pass the 180 minutes a new session
\* may have, and the limit never decreases.
C32_ExtendPerCallCap ==
  [][/\ \A i \in Ids :
          sessions'[i].time_limit_minutes >= sessions[i].time_limit_minutes
     /\ \A t \in Threads, k \in MinExtension..MaxExtension :
          (extend_session(t, ScriptUser, k) /\ ActiveIds(ScriptUser) # {})
          => /\ req'[t].pc = "extend"
             /\ req'[t].sid \in ActiveIds(ScriptUser)
             /\ req'[t].minutes = k
     /\ \A t \in Threads :
          StepsAt(t, "extend")
          => sessions'[req[t].sid].time_limit_minutes =
               sessions[req[t].sid].time_limit_minutes + req[t].minutes]_vars

\* C32 witness: an active session whose limit has passed, by more than one
\* extension can add, the 180 minutes a new session may have.
C32_Witness ==
  \E i \in Ids :
    /\ sessions[i].status = "active"
    /\ sessions[i].time_limit_minutes > MaxTimeLimit + MaxExtension

\* C33: no request removes a session record: the stored sessions only grow,
\* every record stays the record of the same user, and a session replaced
\* by a new one is stored, and stays stored, as abandoned.
C33_SessionsNeverDeleted ==
  [][/\ Len(sessions') >= Len(sessions)
     /\ \A i \in Ids :
          /\ sessions'[i].user_id = sessions[i].user_id
          /\ sessions[i].status = "abandoned"
               => sessions'[i].status = "abandoned"
     /\ \A t \in Threads :
          StepsAt(t, "create_abandon")
          => /\ Len(sessions') = Len(sessions)
             /\ sessions'[req[t].sid].status = "abandoned"]_vars

\* C33 witness: a session was replaced by a new one and both are stored,
\* the replaced one as abandoned.
C33_Witness ==
  \E t \in Threads :
    /\ req[t].pc = "done" /\ req[t].ret.code = "created"
    /\ req[t].sid # NoSession /\ req[t].newsid # NoSession
    /\ req[t].sid # req[t].newsid
    /\ sessions[req[t].sid].status = "abandoned"
    /\ sessions[req[t].newsid].status = "active"

\* C34: every session stored as completed or timeout has a score between 0
\* and total_questions, whatever mapping was submitted, mappings with
\* several keys for one question id ("1" and "01") included.
C34_ScoreWithinTotal ==
  \A i \in Ids :
    sessions[i].status \in {"completed", "timeout"}
    => /\ 0 <= sessions[i].score
       /\ sessions[i].score <= sessions[i].total_questions

\* C35: the QuizResult of a user is written only by a submit that completes
\* an active, non-expired session of that user; a submission of a user with
\* no active session leaves it unchanged.
C35_ResultOnlyByCompletion ==
  [][\A user \in Users :
       results'[user] # results[user]
       => \E t \in Threads :
            /\ StepsAt(t, "score")
            /\ req[t].user = user
            /\ req[t].sid # NoSession
            /\ sessions[req[t].sid].status = "active"
            /\ ~is_expired(req[t].obj, now)
            /\ sessions'[req[t].sid].status = "completed"]_vars

\* C36: a submit whose validity check finds the session expired never
\* stores the session as completed (it is stored as timeout) and leaves the
\* QuizResult of the user unchanged.
C36_ExpiredSubmitFrame ==
  [][\A t \in Threads :
       (\/ /\ req[t].pc \in {"route_validate", "svc_validate"}
           /\ req'[t].pc \in {"route_expired", "partial"}
        \/ /\ req[t].pc \in {"route_expired", "partial"}
           /\ req'[t].pc = "done")
       => /\ results' = results
          /\ sessions'[req[t].sid].status = "timeout"
          /\ req'[t].pc = "done" => req'[t].ret.code \in {"expired", "timeout_error"}]_vars

\* C36 witness: a submit with a correct answer was found expired by
\* get_quiz_score; the session is stored as timeout with the partial score
\* and the user has no QuizResult.
C36_Witness ==
  \E t \in Threads :
    /\ req[t].pc = "done" /\ req[t].name = "quiz_post"
    /\ req[t].ret.code = "timeout_error"
    /\ sessions[req[t].sid].status = "timeout"
    /\ sessions[req[t].sid].score = 1
    /\ results[req[t].user] = <<>>

\* C37: no session is recorded as completed at or after its expiry: every
\* completed session has end_time strictly before start_time plus its time
\* limit, also when the clock advances between the validity check and the
\* complete transition of a submit.
C37_CompletedBeforeExpiry ==
  \A i \in Ids :
    sessions[i].status = "completed"
    => sessions[i].end_time < expiry_time(sessions[i])

\* C38: a request of one user never changes a record of another user: a
\* session or the QuizResult of user B changes only in a step of a request
\* made by B, and a new session belongs to the user whose request stored it.
C38_UserIsolation ==
  [][\A user \in Users :
       LET Acting == \E t \in Threads :
                       req'[t] # req[t] /\ req[t].user = user
       IN /\ results'[user] # results[user] => Acting
          /\ \A i \in 1..Len(sessions') :
               sessions'[i].user_id = user
               => \/ i \in Ids /\ sessions'[i] = sessions[i]
                  \/ Acting]_vars

\* C38 witness: both users have a session; the session of user 1 was
\* completed and scored while the session of user 2 is active and user 2
\* has no QuizResult.
C38_Witness ==
  \E i, j \in Ids :
    /\ sessions[i].user_id = 1 /\ sessions[i].status = "completed"
    /\ sessions[j].user_id = 2 /\ sessions[j].status = "active"
    /\ results[1] # <<>> /\ results[2] = <<>>

\* C39: if the clock keeps advancing, heartbeats of the user keep arriving
\* and from some point on no extend is issued, every active session
\* eventually reaches a terminal status.
C39_ActiveEventuallyTerminal ==
  \A i \in 1..MaxSessions :
    (i \in Ids /\ sessions[i].status = "active")
    ~> (i \in Ids /\ sessions[i].status \in Terminal)

\* C39 witness: a session that was extended has been timed out by a
\* heartbeat.
C39_Witness ==
  /\ req[HeartbeatThread].pc = "done"
  /\ req[HeartbeatThread].ret.code = "expired"
  /\ sessions[req[HeartbeatThread].sid].status = "timeout"
  /\ sessions[req[HeartbeatThread].sid].time_limit_minutes
       = MinTimeLimit + MinExtension

====
